---- MODULE Spec2Model ----
(***************************************************************************)
(* A model of src/github_pipe.py: the Pipe class of the GitHub MCP agent.  *)
(*                                                                         *)
(* Texts are modelled as sequences of strings: a user message is the       *)
(* sequence of its space-separated words, a chat response content or a     *)
(* rendered text is the sequence of its lines.  The substring and prefix   *)
(* tests of the code are computed on the strings themselves.               *)
(***************************************************************************)
EXTENDS Integers, Sequences, FiniteSets, TLC

VARIABLES
    valves,        \* self.valves: the fields the control flow reads
    tools_cache,   \* self._tools_cache
    pc,            \* position of the running pipe() call
    body,          \* the body argument of pipe(): its list of messages
    user_msg,      \* local user_msg of pipe()
    tools,         \* local tools of pipe()
    messages,      \* local messages of pipe(): the transcript
    round_num,     \* loop variable of the tool-round loop
    tool_calls,    \* tool calls of the current round not yet executed
    data,          \* local data of _direct_format: the answer of _github_api
    response,      \* local response of pipe(): the answer of _call_ollama
    ret,           \* what pipe() returned (or that it raised)
    searchLog,     \* requests sent to the search endpoint by this pipe() call
    fetchLog,      \* requests sent to the tool-descriptor endpoint by this call
    chatLog,       \* requests sent to the chat endpoint by this pipe() call
    toolLog,       \* requests sent to the tool proxy by this pipe() call
    fetchHistory,  \* the answers of the tool-descriptor endpoint to this instance
    invocations,   \* pipe() calls started on this instance
    called,        \* the helper called directly on the instance, if any
    arg,           \* its argument
    out            \* its result

pipeVars == <<valves, tools_cache, pc, body, user_msg, tools, messages, round_num,
              tool_calls, data, response, ret, searchLog, fetchLog, chatLog, toolLog,
              fetchHistory, invocations>>

callVars == <<called, arg, out>>

vars == <<pipeVars, callVars>>

(***************************************************************************)
(* Bounds of the model.                                                    *)
(***************************************************************************)
MaxToolRounds == 2      \* valves.MAX_TOOL_ROUNDS ranges over 0..MaxToolRounds
MaxInvocations == 2     \* pipe() calls on one instance
MaxItems == 2           \* items of a search response inside pipe()

None == "None"        \* None where a string is expected
NoneInt == -1         \* None where a number is expected (the numbers are >= 0)
NoResult == <<>>      \* None where a text is expected (a text has a line)
NoCache == <<>>       \* _tools_cache is None; a cached list l is <<l>>

Min(a, b) == IF a < b THEN a ELSE b

RECURSIVE SeqsUpTo(_, _)
SeqsUpTo(S, n) ==
    IF n = 0 THEN {<<>>}
    ELSE LET shorter == SeqsUpTo(S, n - 1)
         IN  shorter \cup {Append(s, x) : s \in {t \in shorter : Len(t) = n - 1}, x \in S}

(***************************************************************************)
(* User messages.  A message is a sequence of words over a finite          *)
(* vocabulary; its text is the words joined by single spaces.  Substring   *)
(* tests are computed on the text itself.                                  *)
(***************************************************************************)
Words == {"show", "table", "chart", "top", "popular", "laptop", "issues", "bug", "prs",
          "pr", "pull", "requests", "python", "go", "react", "Facebook/React",
          "vercel/next.js"}

\* str.lower() on one word of the vocabulary
Lower(w) == IF w = "Facebook/React" THEN "facebook/react" ELSE w

LowerWords(m) == [i \in 1..Len(m) |-> Lower(m[i])]

RECURSIVE JoinWith(_, _)
JoinWith(s, sep) ==
    IF s = <<>> THEN ""
    ELSE IF Len(s) = 1 THEN s[1]
    ELSE s[1] \o sep \o JoinWith(Tail(s), sep)

\* k in s, for strings
In(k, s) == \E i \in 1..(Len(s) - Len(k) + 1) : SubSeq(s, i, i + Len(k) - 1) = k

AnyIn(ks, s) == \E k \in ks : In(k, s)

\* _detect_format
DetectFormat(m) ==
    LET msg == JoinWith(LowerWords(m), " ")
    IN  IF AnyIn({"pie chart", "bar chart", "chart", "line chart", "graph"}, msg)
        THEN "chart"
        ELSE IF AnyIn({"table", "tabular"}, msg) THEN "table"
        ELSE "default"

\* _detect_chart_type
DetectChartType(m) ==
    LET msg == JoinWith(LowerWords(m), " ")
    IN  IF In("bar", msg) THEN "bar"
        ELSE IF In("line", msg) THEN "line"
        ELSE "pie"

\* the alternatives of the noise-word regex that are single words
NoiseWords == {"show", "display", "list", "get", "find", "search", "give", "me", "the",
               "a", "an", "in", "as", "for", "of", "with", "top", "most", "popular",
               "trending", "recent", "latest", "new", "all", "some", "table", "chart",
               "pie", "bar", "line", "tabular", "format", "graph", "repositories",
               "repository", "repos", "repo", "projects", "issues", "prs", "bugs", "by",
               "language", "stars", "sorted", "sort", "order"}

Languages == {"python", "javascript", "typescript", "java", "go", "rust", "c++", "ruby",
              "swift", "kotlin", "dart", "php", "scala", "c", "shell"}

RECURSIVE SelectSeq2(_, _)
SelectSeq2(s, keep) ==
    IF s = <<>> THEN <<>>
    ELSE (IF Head(s) \in keep THEN <<Head(s)>> ELSE <<>>) \o SelectSeq2(Tail(s), keep)

\* a word the owner/repo regex matches: word characters on both sides of a "/"
\* (the words of the vocabulary hold no character outside [\w.-] but "/")
IsRepoToken(w) == \E i \in 2..(Len(w) - 1) : SubSeq(w, i, i) = "/"

\* re.search(...) on the original message: group(1) of the first match, or None
RepoMatch(m) ==
    LET hits == SelectSeq2(m, {w \in Words : IsRepoToken(w)})
    IN  IF hits = <<>> THEN None ELSE Head(hits)

\* re.sub of the noise words (whole words, between \b; "pull requests" is the one
\* alternative of two words), split(), and the filter len(w) > 2
KeywordsOf(lowered) ==
    LET n == Len(lowered)
        InPair(i) == \/ i < n /\ lowered[i] = "pull" /\ lowered[i + 1] = "requests"
                     \/ i > 1 /\ lowered[i] = "requests" /\ lowered[i - 1] = "pull"
        kept == {i \in 1..n : lowered[i] \notin NoiseWords /\ ~InPair(i)
                              /\ Len(lowered[i]) > 2}
        RECURSIVE From(_)
        From(i) == IF i > n THEN <<>>
                   ELSE (IF i \in kept THEN <<lowered[i]>> ELSE <<>>) \o From(i + 1)
    IN  From(1)

\* a popularity qualifier that is never added
PopularityPartsUnchanged(parts, msg) == parts

\* if "popular" in msg or "top" in msg or "trending" in msg: parts.append(...)
PopularityParts(parts, msg) ==
    IF In("popular", msg) \/ In("top", msg) \/ In("trending", msg)
    THEN Append(parts, "stars:>100")
    ELSE parts

\* a repository branch that forgets to switch the sort
RepoBranchKeepsSort(search_type, repo_match) ==
    [search_type |-> search_type, query |-> <<"repo:" \o repo_match>>, sort |-> "stars"]

\* the branch for an owner/name match with the issues or prs type
RepoBranch(search_type, repo_match) ==
    [search_type |-> search_type, query |-> <<"repo:" \o repo_match>>, sort |-> "created"]

\* _extract_search_params; the query is the sequence of its space-separated terms
ExtractSearchParams(m) ==
    LET lowered == LowerWords(m)
        msg == JoinWith(lowered, " ")
        search_type ==
            IF AnyIn({"issue", "bug", "issues"}, msg) THEN "issues"
            ELSE IF AnyIn({"pull request", "pr ", "prs", "pull requests"}, msg) THEN "prs"
            ELSE "repos"
        repo_match == RepoMatch(m)
        keywords == KeywordsOf(lowered)
        langs == SelectSeq2(keywords, Languages)
        lang_parts == [i \in 1..Len(langs) |-> "language:" \o langs[i]]
        topic_parts == SelectSeq2(keywords, {k \in {keywords[i] : i \in 1..Len(keywords)} :
                                                k \notin Languages})
        parts == PopularityParts(topic_parts \o lang_parts, msg)
    IN  IF repo_match # None /\ search_type \in {"issues", "prs"}
        THEN RepoBranch(search_type, repo_match)
        ELSE IF keywords # <<>>
        THEN [search_type |-> search_type,
              query |-> IF parts # <<>> THEN parts ELSE <<"stars:>1000">>,
              sort |-> "stars"]
        ELSE [search_type |-> search_type, query |-> <<"stars:>1000">>, sort |-> "stars"]

(***************************************************************************)
(* Formatters.  A rendered text is the sequence of its lines.  An item is  *)
(* a record of the fields the formatters read; every item of the model     *)
(* carries every field, language and description may be None.  The parser  *)
(* accepts no backquote in a string: the backquote character of the code   *)
(* is written ~ throughout, so the fence marker is "~~~".                  *)
(***************************************************************************)
TABLE_ROWS == 15     \* items[:15]
CHART_ROWS == 10     \* [:10] of _repos_chart

\* f"{n/unit:.1f}"; the numbers of the model are no rounding ties
OneDecimal(n, unit) ==
    LET t == (n * 10 + unit \div 2) \div unit
    IN  ToString(t \div 10) \o "." \o ToString(t % 10)

\* _fmt_number
FmtNumber(n) ==
    IF n = NoneInt THEN "0"
    ELSE IF n >= 1000000 THEN OneDecimal(n, 1000000) \o "M"
    ELSE IF n >= 1000 THEN OneDecimal(n, 1000) \o "k"
    ELSE ToString(n)

\* _trunc
Trunc(s, length) ==
    IF s = None \/ s = "" THEN "-"
    ELSE IF Len(s) > length THEN SubSeq(s, 1, length) \o "..." ELSE s

\* a slice that keeps every item
TakeAll(items, n) == items

\* items[:n]
Take(items, n) == SubSeq(items, 1, Min(Len(items), n))

RepoRow(i, r) ==
    "| " \o ToString(i) \o " | [" \o r.full_name \o "](" \o r.html_url \o ") | "
         \o FmtNumber(r.stargazers_count) \o " | "
         \o (IF r.language = None THEN "-" ELSE r.language) \o " | "
         \o Trunc(r.description, 60) \o " |"

\* _repos_table
ReposTable(items) ==
    LET shown == Take(items, TABLE_ROWS)
    IN  <<"| # | Repository | Stars | Language | Description |",
          "|---|-----------|-------|----------|-------------|">>
        \o [i \in 1..Len(shown) |-> RepoRow(i, shown[i])]

IssueRow(i, iss) ==
    "| " \o ToString(i) \o " | " \o (IF iss.state = "open" THEN "Open" ELSE "Closed")
         \o " | [#" \o ToString(iss.number) \o " " \o Trunc(iss.title, 60) \o "]("
         \o iss.html_url \o ") | @" \o iss.login \o " | " \o iss.created_at \o " |"

\* _issues_table
IssuesTable(items) ==
    LET shown == Take(items, TABLE_ROWS)
    IN  <<"| # | State | Issue | Author | Created |",
          "|---|-------|-------|--------|---------|">>
        \o [i \in 1..Len(shown) |-> IssueRow(i, shown[i])]

PrRow(i, pr) ==
    "| " \o ToString(i) \o " | "
         \o (IF pr.merged THEN "Merged" ELSE IF pr.state = "open" THEN "Open" ELSE "Closed")
         \o " | [#" \o ToString(pr.number) \o " " \o Trunc(pr.title, 60) \o "]("
         \o pr.html_url \o ") | @" \o pr.login \o " | " \o pr.created_at \o " |"

\* _prs_table
PrsTable(items) ==
    LET shown == Take(items, TABLE_ROWS)
    IN  <<"| # | State | Pull Request | Author | Created |",
          "|---|-------|-------------|--------|---------|">>
        \o [i \in 1..Len(shown) |-> PrRow(i, shown[i])]

\* sorted(pairs, key=first, reverse/negated), stable: each <<key, value>> pair is
\* inserted after the pairs whose key is not smaller
RECURSIVE InsertDesc(_, _)
InsertDesc(sorted, x) ==
    IF sorted = <<>> THEN <<x>>
    ELSE IF Head(sorted)[1] >= x[1]
         THEN <<Head(sorted)>> \o InsertDesc(Tail(sorted), x)
         ELSE <<x>> \o sorted

RECURSIVE SortDesc(_, _)
SortDesc(done, todo) ==
    IF todo = <<>> THEN done
    ELSE SortDesc(InsertDesc(done, Head(todo)), Tail(todo))

\* the keys of lang_counts in insertion order
RECURSIVE LangOrder(_, _)
LangOrder(items, seen) ==
    IF items = <<>> THEN seen
    ELSE LET lang == IF Head(items).language = None THEN "Other" ELSE Head(items).language
         IN  LangOrder(Tail(items),
                       IF \E i \in 1..Len(seen) : seen[i] = lang THEN seen
                       ELSE Append(seen, lang))

LangOf(r) == IF r.language = None THEN "Other" ELSE r.language

\* _repos_chart
ReposChart(items, chart_type) ==
    IF chart_type = "pie"
    THEN LET langs == LangOrder(items, <<>>)
             lang_counts == [i \in 1..Len(langs) |->
                                <<Cardinality({j \in 1..Len(items) :
                                                  LangOf(items[j]) = langs[i]}),
                                  langs[i]>>]
             top == Take(SortDesc(<<>>, lang_counts), CHART_ROWS)
         IN  <<"~~~mermaid", "pie showData", "    title \"Repositories by Language\"">>
             \o [i \in 1..Len(top) |->
                    "    \"" \o top[i][2] \o "\" : " \o ToString(top[i][1])]
             \o <<"~~~">>
    ELSE LET keyed == [i \in 1..Len(items) |-> <<items[i].stargazers_count, items[i]>>]
             bar_items == Take(SortDesc(<<>>, keyed), CHART_ROWS)
             names == [i \in 1..Len(bar_items) |->
                          "\"" \o Trunc(bar_items[i][2].name, 15) \o "\""]
             vals == [i \in 1..Len(bar_items) |-> ToString(bar_items[i][1])]
             max_val == IF bar_items = <<>> THEN 100 ELSE bar_items[1][1]
         IN  <<"~~~mermaid", "xychart-beta", "    title \"Top Repositories by Stars\"",
               "    x-axis [" \o JoinWith(names, ", ") \o "]",
               "    y-axis \"Stars\" 0 --> " \o ToString((max_val * 12) \div 10),
               "    bar [" \o JoinWith(vals, ", ") \o "]",
               "~~~">>

OpenCount(items) == Cardinality({i \in 1..Len(items) : items[i].state = "open"})
MergedCount(items) == Cardinality({i \in 1..Len(items) : items[i].merged})

\* the chart of _direct_format for issues
IssuesChart(items) ==
    LET open_count == OpenCount(items)
    IN  <<"~~~mermaid", "pie showData", "    title \"Issues by State\"",
          "    \"Open\" : " \o ToString(open_count),
          "    \"Closed\" : " \o ToString(Len(items) - open_count), "~~~">>

\* the chart of _direct_format for pull requests
PrsChart(items) ==
    LET open_c == OpenCount(items)
        merged_c == MergedCount(items)
    IN  <<"~~~mermaid", "pie showData", "    title \"Pull Requests by State\"",
          "    \"Open\" : " \o ToString(open_c),
          "    \"Merged\" : " \o ToString(merged_c),
          "    \"Closed\" : " \o ToString(Len(items) - open_c - merged_c), "~~~">>

(***************************************************************************)
(* _clean_response.  A content is the sequence of its lines, as split on   *)
(* the newline character; the empty text is the one empty line.            *)
(***************************************************************************)
StartsWith(s, prefix) == Len(s) >= Len(prefix) /\ SubSeq(s, 1, Len(prefix)) = prefix

\* index of the first occurrence of tok in s, 0 when there is none
FirstAt(tok, s) ==
    LET at == {i \in 1..(Len(s) - Len(tok) + 1) : SubSeq(s, i, i + Len(tok) - 1) = tok}
    IN  IF at = {} THEN 0 ELSE CHOOSE i \in at : \A j \in at : i <= j

\* re.sub(tok, '', s)
RECURSIVE RemoveAll(_, _)
RemoveAll(tok, s) ==
    LET i == FirstAt(tok, s)
    IN  IF i = 0 THEN s
        ELSE SubSeq(s, 1, i - 1) \o RemoveAll(tok, SubSeq(s, i + Len(tok), Len(s)))

\* re.sub(r'<\|im_start\|>.*', '', content, flags=re.DOTALL): everything from the
\* first token on is deleted, the lines after it included
CutImStart(lines) ==
    LET hit == {i \in 1..Len(lines) : In("<|im_start|>", lines[i])}
    IN  IF hit = {} THEN lines
        ELSE LET i == CHOOSE x \in hit : \A y \in hit : x <= y
             IN  Append(SubSeq(lines, 1, i - 1),
                        SubSeq(lines[i], 1, FirstAt("<|im_start|>", lines[i]) - 1))

\* the three re.sub calls that strip leaked special tokens
StripTokens(lines) ==
    LET cut == CutImStart(lines)
    IN  [i \in 1..Len(cut) |-> RemoveAll("<|endoftext|>", RemoveAll("<|im_end|>", cut[i]))]

\* str.strip() of one line (the model's only whitespace inside a line is " ")
RECURSIVE LStrip(_)
LStrip(s) == IF StartsWith(s, " ") THEN LStrip(SubSeq(s, 2, Len(s))) ELSE s

RECURSIVE RStrip(_)
RStrip(s) ==
    IF Len(s) > 0 /\ SubSeq(s, Len(s), Len(s)) = " " THEN RStrip(SubSeq(s, 1, Len(s) - 1))
    ELSE s

Strip(s) == RStrip(LStrip(s))

ChartStarters == {"pie", "pie showData", "xychart-beta", "graph", "flowchart", "gantt"}

\* an iteration that opens a block at a starter line without a look at in_code
CleanStepIgnoresFences(lines, i, st) ==
    LET stripped == Strip(lines[i])
        in_code1 == IF StartsWith(stripped, "~~~") THEN ~st.in_code ELSE st.in_code
        opens == ~st.in_mermaid /\ stripped \in ChartStarters
        closes == /\ (opens \/ st.in_mermaid)
                  /\ i + 1 <= Len(lines)
                  /\ Strip(lines[i + 1]) = ""
                  /\ (i + 2 > Len(lines) \/ ~StartsWith(lines[i + 2], "    "))
    IN  [result |-> (IF opens THEN Append(st.result, "~~~mermaid") ELSE st.result)
                    \o <<lines[i]>> \o (IF closes THEN <<"~~~">> ELSE <<>>),
         inserted |-> (IF opens THEN Append(st.inserted, TRUE) ELSE st.inserted)
                      \o <<FALSE>> \o (IF closes THEN <<TRUE>> ELSE <<>>),
         in_mermaid |-> (opens \/ st.in_mermaid) /\ ~closes,
         in_code |-> (opens \/ in_code1) /\ ~closes]

\* one iteration of the loop over the lines, at (1-based) index i; st.inserted
\* marks the lines of st.result that the loop added itself
CleanStep(lines, i, st) ==
    LET stripped == Strip(lines[i])
        in_code1 == IF StartsWith(stripped, "~~~") THEN ~st.in_code ELSE st.in_code
        opens == ~in_code1 /\ ~st.in_mermaid /\ stripped \in ChartStarters
        result1 == IF opens THEN Append(st.result, "~~~mermaid") ELSE st.result
        inserted1 == IF opens THEN Append(st.inserted, TRUE) ELSE st.inserted
        in_mermaid2 == opens \/ st.in_mermaid
        in_code2 == opens \/ in_code1
        closes == /\ in_mermaid2
                  /\ i + 1 <= Len(lines)
                  /\ Strip(lines[i + 1]) = ""
                  /\ (i + 2 > Len(lines) \/ ~StartsWith(lines[i + 2], "    "))
    IN  [result |-> Append(result1, lines[i]) \o (IF closes THEN <<"~~~">> ELSE <<>>),
         inserted |-> Append(inserted1, FALSE) \o (IF closes THEN <<TRUE>> ELSE <<>>),
         in_mermaid |-> in_mermaid2 /\ ~closes,
         in_code |-> in_code2 /\ ~closes]

RECURSIVE CleanLoop(_, _, _)
CleanLoop(lines, i, st) ==
    IF i > Len(lines) THEN st ELSE CleanLoop(lines, i + 1, CleanStep(lines, i, st))

\* the loop of _clean_response and the closing fence appended after it
CleanScan(lines) ==
    LET st == CleanLoop(lines, 1, [result |-> <<>>, inserted |-> <<>>,
                                   in_mermaid |-> FALSE, in_code |-> FALSE])
    IN  IF st.in_mermaid
        THEN [st EXCEPT !.result = Append(@, "~~~"), !.inserted = Append(@, TRUE)]
        ELSE st

\* '\n'.join(result).strip()
RECURSIVE DropBlankHead(_)
DropBlankHead(ls) ==
    IF ls # <<>> /\ Strip(Head(ls)) = "" THEN DropBlankHead(Tail(ls)) ELSE ls

RECURSIVE DropBlankLast(_)
DropBlankLast(ls) ==
    IF ls # <<>> /\ Strip(ls[Len(ls)]) = "" THEN DropBlankLast(SubSeq(ls, 1, Len(ls) - 1))
    ELSE ls

StripText(ls) ==
    LET kept == DropBlankLast(DropBlankHead(ls))
    IN  IF kept = <<>> THEN <<"">>
        ELSE [i \in 1..Len(kept) |->
                 LET a == IF i = 1 THEN LStrip(kept[i]) ELSE kept[i]
                 IN  IF i = Len(kept) THEN RStrip(a) ELSE a]

\* _clean_response
CleanResponse(content) == StripText(CleanScan(StripTokens(content)).result)

(***************************************************************************)
(* The collaborators of pipe(): what each endpoint may answer.             *)
(***************************************************************************)
\* the k-th record of a search result
ItemAt(k) ==
    [full_name |-> "owner/repo" \o ToString(k),
     name |-> "repo" \o ToString(k),
     html_url |-> "https://github.com/owner/repo" \o ToString(k),
     stargazers_count |-> IF k % 3 = 0 THEN 2500000 ELSE IF k % 3 = 1 THEN 1500 ELSE 999,
     language |-> IF k % 4 = 0 THEN None ELSE IF k % 2 = 0 THEN "Python" ELSE "Go",
     description |-> IF k % 5 = 0 THEN None ELSE "description " \o ToString(k),
     state |-> IF k % 2 = 0 THEN "open" ELSE "closed",
     merged |-> k % 3 = 0,
     number |-> 100 + k,
     title |-> "title " \o ToString(k),
     login |-> "user" \o ToString(k),
     created_at |-> "2024-01-0" \o ToString(k % 10)]

\* what requests.get(...).json() of the search endpoint gives: an exception, a
\* JSON object without "items" (an API error message), or a result page
SearchResponses ==
    {[kind |-> "fail", has_items |-> FALSE, items |-> <<>>, total_count |-> NoneInt],
     [kind |-> "json", has_items |-> FALSE, items |-> <<>>, total_count |-> NoneInt]}
    \cup {[kind |-> "json", has_items |-> TRUE, items |-> [i \in 1..n |-> ItemAt(i)],
           total_count |-> IF n = 0 THEN 0 ELSE 1200 + n] : n \in 0..MaxItems}

\* the OpenAPI documents the tool proxy may serve: a list of (path, method)
OpenApiDocs ==
    {<<>>,
     <<[path |-> "/search_repositories", method |-> "post"],
       [path |-> "/get_issue", method |-> "post"],
       [path |-> "/get_me", method |-> "post"],
       [path |-> "/search_issues", method |-> "get"]>>}

FetchResponses == {[kind |-> "fail", doc |-> <<>>]}
                  \cup {[kind |-> "json", doc |-> d] : d \in OpenApiDocs}

PRIORITY_TOOLS == {"search_repositories", "search_code", "search_issues", "search_users",
                   "list_issues", "list_pull_requests", "list_commits", "get_issue",
                   "get_pull_request", "get_file_contents", "create_issue",
                   "add_issue_comment"}

\* the tool calls a chat response may request; arguments arrive as a JSON object
\* or as a string
ToolCallA == [name |-> "search_repositories",
              arguments |-> [type |-> "dict", value |-> "{q: react}"]]
ToolCallB == [name |-> "get_issue",
              arguments |-> [type |-> "str", value |-> "{\"issue_number\": 7}"]]

\* a call whose argument string is cut short: not valid JSON
ToolCallC == [name |-> "get_issue",
              arguments |-> [type |-> "str", value |-> "{\"issue_number\": "]]

\* one call with a well-formed argument string; a call with a malformed one
\* followed by a call with a JSON object
ToolCallLists == {<<ToolCallB>>, <<ToolCallC, ToolCallA>>}

\* json.loads of an argument string: the object it denotes, or an error
JsonLoads(str) ==
    IF str = "{\"issue_number\": 7}" THEN [ok |-> TRUE, value |-> "{issue_number: 7}"]
    ELSE [ok |-> FALSE, value |-> ""]

Contents == {<<"">>, <<"Here are the results.">>,
             <<"Languages:", "pie showData", "    \"Go\" : 2", "", "Done.<|im_end|>">>}

\* what requests.post(...).json() of the chat endpoint gives: an exception, or a
\* response whose message has a content and possibly tool calls
ChatResponses ==
    {[kind |-> "fail", message |-> [role |-> "assistant", content |-> <<"">>,
                                    tool_calls |-> <<>>]]}
    \cup {[kind |-> "json", message |-> [role |-> "assistant", content |-> c,
                                         tool_calls |-> <<>>]] : c \in Contents}
    \cup {[kind |-> "json", message |-> [role |-> "assistant", content |-> <<"Let me check.">>,
                                         tool_calls |-> tcs]] : tcs \in ToolCallLists}

TOOL_RESULT_LIMIT == 6000

\* what requests.post(...) of the tool proxy gives: an exception, or a text of
\* some length
ProxyResponses(tool_name) ==
    {[kind |-> "fail", text |-> "", len |-> 0],
     [kind |-> "text", text |-> "result of " \o tool_name,
      len |-> IF tool_name = "get_issue" THEN 7000 ELSE 20]}

\* the messages of the request bodies
UserMsgs == {<<"show", "top", "python">>, <<"table", "top", "python">>,
             <<"chart", "issues", "Facebook/React">>}

Bodies == {<<[role |-> "user", content |-> m, tool_calls |-> <<>>]>> : m \in UserMsgs}
          \cup {<<>>,
                <<[role |-> "user", content |-> <<"table", "prs">>, tool_calls |-> <<>>],
                  [role |-> "assistant", content |-> <<"Here are the results.">>,
                   tool_calls |-> <<>>]>>}

(***************************************************************************)
(* The helpers of pipe() that talk to the collaborators.                   *)
(***************************************************************************)
\* _github_api without its except branch: the exception leaves the function
GithubApiNoCatch(resp) ==
    [raised |-> resp.kind = "fail", error |-> FALSE, has_items |-> resp.has_items,
     items |-> resp.items, total_count |-> resp.total_count]

\* _github_api on response resp: the decoded object, or the error value of the
\* except branch; raised says that an exception left the function
GithubApi(resp) ==
    IF resp.kind = "fail"
    THEN [raised |-> FALSE, error |-> TRUE, has_items |-> FALSE, items |-> <<>>,
          total_count |-> NoneInt]
    ELSE [raised |-> FALSE, error |-> FALSE, has_items |-> resp.has_items,
          items |-> resp.items, total_count |-> resp.total_count]

\* the request _direct_format sends for a message
SearchRequest(m) ==
    LET p == ExtractSearchParams(m)
    IN  [endpoint |-> IF p.search_type = "repos" THEN "/search/repositories"
                      ELSE "/search/issues",
         q |-> IF p.search_type = "repos" THEN p.query
               ELSE IF p.search_type = "issues" THEN Append(p.query, "is:issue")
               ELSE Append(p.query, "is:pr"),
         sort |-> p.sort,
         per_page |-> TABLE_ROWS]

\* _direct_format from the answer d of _github_api on: None, or the lines of the
\* formatted text
DirectFormat(m, d) ==
    LET fmt == DetectFormat(m)
        chart_type == DetectChartType(m)
        p == ExtractSearchParams(m)
        items == IF d.has_items THEN d.items ELSE <<>>
        total == IF d.total_count = NoneInt THEN Len(items) ELSE d.total_count
        Header(what) == <<"Found **" \o FmtNumber(total) \o "** " \o what \o " for ~"
                          \o JoinWith(p.query, " ") \o "~", "">>
    IN  IF d.raised THEN [raised |-> TRUE, result |-> NoResult]
        ELSE IF items = <<>> THEN [raised |-> FALSE, result |-> NoResult]
        ELSE IF p.search_type = "repos"
        THEN [raised |-> FALSE,
              result |-> Header("repositories")
                         \o (IF fmt = "table" THEN ReposTable(items)
                             ELSE ReposChart(items, chart_type))]
        ELSE IF p.search_type = "issues"
        THEN [raised |-> FALSE,
              result |-> Header("issues")
                         \o (IF fmt = "table" THEN IssuesTable(items)
                             ELSE IssuesChart(items))]
        ELSE [raised |-> FALSE,
              result |-> Header("pull requests")
                         \o (IF fmt = "table" THEN PrsTable(items) ELSE PrsChart(items))]

\* path.strip("/")
RECURSIVE StripSlashes(_)
StripSlashes(path) ==
    IF StartsWith(path, "/") THEN StripSlashes(SubSeq(path, 2, Len(path)))
    ELSE IF Len(path) > 0 /\ SubSeq(path, Len(path), Len(path)) = "/"
    THEN StripSlashes(SubSeq(path, 1, Len(path) - 1))
    ELSE path

\* the tool names _fetch_tools keeps of an OpenAPI document, in document order
RECURSIVE ToolsOf(_, _)
ToolsOf(doc, use_all) ==
    IF doc = <<>> THEN <<>>
    ELSE LET tool_name == StripSlashes(Head(doc).path)
             keep == Head(doc).method = "post"
                     /\ (use_all \/ tool_name \in PRIORITY_TOOLS)
         IN  (IF keep THEN <<tool_name>> ELSE <<>>) \o ToolsOf(Tail(doc), use_all)

\* _fetch_tools without the look at the cache
FetchToolsAlways(cache, use_all, resp) ==
    IF resp.kind = "fail" THEN [tools |-> <<>>, cache |-> cache, requested |-> TRUE]
    ELSE [tools |-> ToolsOf(resp.doc, use_all), cache |-> <<ToolsOf(resp.doc, use_all)>>,
          requested |-> TRUE]

\* _fetch_tools: the list it returns, the cache it leaves, and whether it sent a
\* request to the tool-descriptor endpoint
FetchTools(cache, use_all, resp) ==
    IF cache # NoCache THEN [tools |-> cache[1], cache |-> cache, requested |-> FALSE]
    ELSE IF resp.kind = "fail" THEN [tools |-> <<>>, cache |-> NoCache, requested |-> TRUE]
    ELSE [tools |-> ToolsOf(resp.doc, use_all), cache |-> <<ToolsOf(resp.doc, use_all)>>,
          requested |-> TRUE]

\* the empty argument set, arguments = {}
EmptyArguments == "{}"

\* arguments that stay the undecoded string when json.loads fails
ArgumentsOfKeepsString(tc) ==
    IF tc.arguments.type = "str" /\ JsonLoads(tc.arguments.value).ok
    THEN JsonLoads(tc.arguments.value).value
    ELSE tc.arguments.value

\* the arguments pipe() passes to _execute_tool for a requested tool call
ArgumentsOf(tc) ==
    IF tc.arguments.type = "str"
    THEN IF JsonLoads(tc.arguments.value).ok THEN JsonLoads(tc.arguments.value).value
         ELSE EmptyArguments
    ELSE tc.arguments.value

\* _execute_tool: the text it returns on the proxy's answer
ExecuteTool(resp) ==
    IF resp.kind = "fail" THEN <<"{\"error\": \"...\"}">>
    ELSE IF resp.len > TOOL_RESULT_LIMIT THEN <<resp.text, "... (truncated)">>
    ELSE <<resp.text>>

\* the latest user message of the body, "" when there is none
LatestUserMsg(b) ==
    LET users == {i \in 1..Len(b) : b[i].role = "user"}
    IN  IF users = {} THEN <<>>
        ELSE b[CHOOSE i \in users : \A j \in users : j <= i].content

NoRet == [kind |-> "none", text |-> <<>>]

\* no answer held
NoData == [raised |-> FALSE, error |-> FALSE, has_items |-> FALSE, items |-> <<>>,
           total_count |-> NoneInt]
NoResponse == [kind |-> "none", message |-> [role |-> "assistant", content |-> <<"">>,
                                            tool_calls |-> <<>>]]

(***************************************************************************)
(* pipe(): one action for each stretch of it that ends with the answer of  *)
(* a collaborator.                                                         *)
(***************************************************************************)
\* the instance after __init__, before any call
Constructed ==
    /\ tools_cache = NoCache
    /\ pc = "idle"
    /\ body = <<>>
    /\ user_msg = <<>>
    /\ tools = <<>>
    /\ messages = <<>>
    /\ round_num = 0
    /\ tool_calls = <<>>
    /\ data = NoData
    /\ response = NoResponse
    /\ ret = NoRet
    /\ searchLog = <<>>
    /\ fetchLog = <<>>
    /\ chatLog = <<>>
    /\ toolLog = <<>>
    /\ fetchHistory = <<>>
    /\ invocations = 0

NoCall == called = "none" /\ arg = <<>> /\ out = <<>>

Init ==
    /\ valves \in [MAX_TOOL_ROUNDS : 0..MaxToolRounds, USE_ALL_TOOLS : {FALSE}]
    /\ Constructed
    /\ NoCall

\* a loop that runs one round too many
MoreRoundsOffByOne(n) == n <= valves.MAX_TOOL_ROUNDS

\* range(self.valves.MAX_TOOL_ROUNDS) has a round after n completed rounds
MoreRounds(n) == n < valves.MAX_TOOL_ROUNDS

\* the transcript the model path starts from
InitialMessages(b) ==
    <<[role |-> "system", content |-> <<"SYSTEM_PROMPT">>, tool_calls |-> <<>>]>>
    \o [i \in 1..Len(b) |-> [role |-> b[i].role, content |-> b[i].content,
                             tool_calls |-> <<>>]]

\* pipe() is called: the latest user message is extracted and classified
PipeStart(b) ==
    /\ pc \in {"idle", "done"}
    /\ invocations < MaxInvocations
    /\ invocations' = invocations + 1
    /\ body' = b
    /\ user_msg' = LatestUserMsg(b)
    /\ pc' = IF DetectFormat(LatestUserMsg(b)) \in {"table", "chart"} THEN "direct"
             ELSE "model"
    /\ tools' = <<>>
    /\ messages' = <<>>
    /\ round_num' = 0
    /\ tool_calls' = <<>>
    /\ data' = NoData
    /\ response' = NoResponse
    /\ ret' = NoRet
    /\ searchLog' = <<>>
    /\ fetchLog' = <<>>
    /\ chatLog' = <<>>
    /\ toolLog' = <<>>
    /\ UNCHANGED <<valves, tools_cache, fetchHistory, callVars>>

\* _direct_format up to the answer of _github_api
SearchCall(resp) ==
    /\ pc = "direct"
    /\ searchLog' = Append(searchLog, SearchRequest(user_msg))
    /\ data' = GithubApi(resp)
    /\ pc' = "format"
    /\ UNCHANGED <<valves, tools_cache, body, user_msg, tools, messages, round_num,
                   tool_calls, response, ret, fetchLog, chatLog, toolLog, fetchHistory,
                   invocations, callVars>>

\* a fast path that drops its result and always goes on to the model path
FastPathFallsThrough ==
    /\ pc = "format"
    /\ data' = NoData
    /\ pc' = "model"
    /\ UNCHANGED <<valves, tools_cache, body, user_msg, tools, messages, round_num,
                   tool_calls, response, ret, searchLog, fetchLog, chatLog, toolLog,
                   fetchHistory, invocations, callVars>>

\* the rest of the fast path: the result of _direct_format is returned, or pipe
\* goes on to the model path
FastPathReturn ==
    /\ pc = "format"
    /\ data' = NoData
    /\ LET r == DirectFormat(user_msg, data)
       IN  IF r.raised
           THEN pc' = "done" /\ ret' = [kind |-> "raised", text |-> <<>>]
           ELSE IF r.result # NoResult
           THEN pc' = "done" /\ ret' = [kind |-> "direct", text |-> r.result]
           ELSE pc' = "model" /\ ret' = ret
    /\ UNCHANGED <<valves, tools_cache, body, user_msg, tools, messages, round_num,
                   tool_calls, response, searchLog, fetchLog, chatLog, toolLog,
                   fetchHistory, invocations, callVars>>

\* the model path begins: _fetch_tools and the initial transcript
ModelPathStart(resp) ==
    /\ pc = "model"
    /\ LET f == FetchTools(tools_cache, valves.USE_ALL_TOOLS, resp)
       IN  /\ tools' = f.tools
           /\ tools_cache' = f.cache
           /\ fetchLog' = IF f.requested THEN Append(fetchLog, "/openapi.json") ELSE fetchLog
           /\ fetchHistory' = IF f.requested
                              THEN Append(fetchHistory, [ok |-> resp.kind # "fail",
                                                         tools |-> f.tools])
                              ELSE fetchHistory
    /\ messages' = InitialMessages(body)
    /\ round_num' = 0
    /\ pc' = IF MoreRounds(0) THEN "round" ELSE "final"
    /\ UNCHANGED <<valves, body, user_msg, tool_calls, data, response, ret, searchLog,
                   chatLog, toolLog, invocations, callVars>>

\* the text pipe() returns for a response without tool calls
ModelText(content) ==
    IF CleanResponse(content) # <<"">> THEN CleanResponse(content)
    ELSE <<"No response generated.">>

\* a round that calls the chat endpoint again when the call failed
ToolRoundRetries(resp) ==
    /\ pc = "round"
    /\ chatLog' = Append(chatLog, [tools |-> tools, messages |-> messages])
    /\ response' = resp
    /\ IF resp.kind = "fail"
       THEN UNCHANGED <<pc, ret, messages, tool_calls>>
       ELSE IF resp.message.tool_calls = <<>>
       THEN /\ pc' = "done"
            /\ ret' = [kind |-> "text", text |-> ModelText(resp.message.content)]
            /\ UNCHANGED <<messages, tool_calls>>
       ELSE /\ pc' = "tools"
            /\ messages' = Append(messages, resp.message)
            /\ tool_calls' = resp.message.tool_calls
            /\ ret' = ret
    /\ UNCHANGED <<valves, tools_cache, body, user_msg, tools, round_num, data, searchLog,
                   fetchLog, toolLog, fetchHistory, invocations, callVars>>

\* one round of the loop up to the chat response: the call with the tools
ToolRound(resp) ==
    /\ pc = "round"
    /\ chatLog' = Append(chatLog, [tools |-> tools, messages |-> messages])
    /\ response' = resp
    /\ IF resp.kind = "fail"
       THEN /\ pc' = "done"
            /\ ret' = [kind |-> "error", text |-> <<"Error calling Ollama: ...">>]
            /\ UNCHANGED <<messages, tool_calls>>
       ELSE IF resp.message.tool_calls = <<>>
       THEN /\ pc' = "done"
            /\ ret' = [kind |-> "text", text |-> ModelText(resp.message.content)]
            /\ UNCHANGED <<messages, tool_calls>>
       ELSE /\ pc' = "tools"
            /\ messages' = Append(messages, resp.message)
            /\ tool_calls' = resp.message.tool_calls
            /\ ret' = ret
    /\ UNCHANGED <<valves, tools_cache, body, user_msg, tools, round_num, data, searchLog,
                   fetchLog, toolLog, fetchHistory, invocations, callVars>>

\* a loop over the tool calls that runs them last to first
ToolCallReversed(resp) ==
    /\ LET tc == tool_calls[Len(tool_calls)]
       IN  /\ toolLog' = Append(toolLog, [name |-> tc.name, arguments |-> ArgumentsOf(tc),
                                          seen |-> Len(messages),
                                          result |-> ExecuteTool(resp)])
           /\ messages' = Append(messages, [role |-> "tool", content |-> ExecuteTool(resp),
                                            tool_calls |-> <<>>])
    /\ tool_calls' = SubSeq(tool_calls, 1, Len(tool_calls) - 1)
    /\ IF Len(tool_calls) = 1
       THEN /\ round_num' = round_num + 1
            /\ pc' = IF MoreRounds(round_num + 1) THEN "round" ELSE "final"
       ELSE UNCHANGED <<round_num, pc>>
    /\ UNCHANGED <<valves, tools_cache, body, user_msg, tools, data, response, ret,
                   searchLog, fetchLog, chatLog, fetchHistory, invocations, callVars>>

\* the next requested tool call is executed and its result appended
ToolCall(resp) ==
    /\ LET tc == Head(tool_calls)
       IN  /\ toolLog' = Append(toolLog, [name |-> tc.name, arguments |-> ArgumentsOf(tc),
                                          seen |-> Len(messages),
                                          result |-> ExecuteTool(resp)])
           /\ messages' = Append(messages, [role |-> "tool", content |-> ExecuteTool(resp),
                                            tool_calls |-> <<>>])
    /\ tool_calls' = Tail(tool_calls)
    /\ IF Tail(tool_calls) = <<>>
       THEN /\ round_num' = round_num + 1
            /\ pc' = IF MoreRounds(round_num + 1) THEN "round" ELSE "final"
       ELSE UNCHANGED <<round_num, pc>>
    /\ UNCHANGED <<valves, tools_cache, body, user_msg, tools, data, response, ret,
                   searchLog, fetchLog, chatLog, fetchHistory, invocations, callVars>>

\* the rounds are used up: the final call without tools
FinalAnswer(resp) ==
    /\ pc = "final"
    /\ chatLog' = Append(chatLog, [tools |-> <<>>, messages |-> messages])
    /\ response' = resp
    /\ pc' = "done"
    /\ ret' = IF resp.kind = "fail" THEN [kind |-> "error", text |-> <<"Error: ...">>]
              ELSE [kind |-> "text", text |-> CleanResponse(resp.message.content)]
    /\ UNCHANGED <<valves, tools_cache, body, user_msg, tools, messages, round_num,
                   tool_calls, data, searchLog, fetchLog, toolLog, fetchHistory,
                   invocations, callVars>>

\* the loop over the tool calls of a round
ToolCalls ==
    /\ pc = "tools"
    /\ tool_calls # <<>>
    /\ \E resp \in ProxyResponses(Head(tool_calls).name) : ToolCall(resp)

Next ==
    \/ \E b \in Bodies : PipeStart(b)
    \/ \E resp \in SearchResponses : SearchCall(resp)
    \/ FastPathReturn
    \/ \E resp \in FetchResponses : ModelPathStart(resp)
    \/ \E resp \in ChatResponses : ToolRound(resp)
    \/ ToolCalls
    \/ \E resp \in ChatResponses : FinalAnswer(resp)

Spec == Init /\ [][Next]_vars

(***************************************************************************)
(* The pure methods, each applied once to an input drawn from a bounded    *)
(* set, on an instance that has handled no request.                        *)
(***************************************************************************)
MaxWords == 3       \* words of a message given to _extract_search_params
MaxRows == 17       \* items of a list given to a table formatter
MaxOffset == 3      \* the first item of such a list is ItemAt(1..MaxOffset + 1)
MaxLines == 5       \* lines of a text given to _clean_response

FreshInstance ==
    /\ valves = [MAX_TOOL_ROUNDS |-> MaxToolRounds, USE_ALL_TOOLS |-> FALSE]
    /\ Constructed

Messages == SeqsUpTo(Words, MaxWords)

InitExtract ==
    /\ FreshInstance
    /\ called = "none"
    /\ arg \in Messages
    /\ out = <<>>

\* _extract_search_params(arg)
ExtractCall ==
    /\ called = "none"
    /\ called' = "_extract_search_params"
    /\ out' = ExtractSearchParams(arg)
    /\ UNCHANGED <<pipeVars, arg>>

NextExtract == ExtractCall

SpecExtract == InitExtract /\ [][NextExtract]_vars

ItemLists == {[i \in 1..n |-> ItemAt(off + i)] : n \in 0..MaxRows, off \in 0..MaxOffset}

InitTable ==
    /\ FreshInstance
    /\ called = "none"
    /\ arg \in ItemLists
    /\ out = <<>>

\* _repos_table(arg)
ReposTableCall ==
    /\ called = "none"
    /\ called' = "_repos_table"
    /\ out' = ReposTable(arg)
    /\ UNCHANGED <<pipeVars, arg>>

\* _issues_table(arg)
IssuesTableCall ==
    /\ called = "none"
    /\ called' = "_issues_table"
    /\ out' = IssuesTable(arg)
    /\ UNCHANGED <<pipeVars, arg>>

\* _prs_table(arg)
PrsTableCall ==
    /\ called = "none"
    /\ called' = "_prs_table"
    /\ out' = PrsTable(arg)
    /\ UNCHANGED <<pipeVars, arg>>

NextTable == ReposTableCall \/ IssuesTableCall \/ PrsTableCall

SpecTable == InitTable /\ [][NextTable]_vars

\* the lines the texts given to _clean_response are made of
CleanLines == {"pie showData", "graph", "~~~", "", "    \"a\" : 1", "Done.<|im_end|>",
               "<|im_start|>assistant"}

Texts == SeqsUpTo(CleanLines, MaxLines) \ {<<>>}

InitClean ==
    /\ FreshInstance
    /\ called = "none"
    /\ arg \in Texts
    /\ out = <<>>

\* _clean_response(arg)
CleanCall ==
    /\ called = "none"
    /\ called' = "_clean_response"
    /\ out' = CleanResponse(arg)
    /\ UNCHANGED <<pipeVars, arg>>

NextClean == CleanCall

SpecClean == InitClean /\ [][NextClean]_vars

(***************************************************************************)
(* Properties of pipe(), checked under Spec.                               *)
(***************************************************************************)
\* the assistant messages of the transcript that request tool calls: one for
\* each round whose response requested tools
RoundsWithTools == Cardinality({i \in 1..Len(messages) : messages[i].tool_calls # <<>>})

\* the chat calls of this invocation that offered tools
OfferingCalls == {i \in 1..Len(chatLog) : chatLog[i].tools # <<>>}

\* a step of pipe() that calls the chat endpoint or the tool proxy
ChatOrToolStep ==
    \/ \E resp \in ChatResponses : ToolRound(resp)
    \/ \E resp \in ChatResponses : FinalAnswer(resp)
    \/ ToolCalls

\* C1: the tool list is offered on at most MAX_TOOL_ROUNDS chat calls; when every
\* round's response requested tools, exactly one further chat call is made, with
\* no tools, and its cleaned text is returned whatever the response holds (tool
\* calls included); an invocation makes at most MAX_TOOL_ROUNDS + 1 chat calls
\* and then ends.
C1_RoundLimit ==
    /\ Cardinality(OfferingCalls) <= valves.MAX_TOOL_ROUNDS
    /\ Len(chatLog) <= valves.MAX_TOOL_ROUNDS + 1
    /\ (pc \in {"round", "tools"} => Len(chatLog) <= valves.MAX_TOOL_ROUNDS)
    /\ (pc \in {"round", "tools", "final"} /\ tool_calls = <<>>
           /\ RoundsWithTools = valves.MAX_TOOL_ROUNDS =>
            pc = "final" /\ Len(chatLog) = valves.MAX_TOOL_ROUNDS)
    /\ (pc = "done" /\ ret.kind \in {"text", "error"}
           /\ RoundsWithTools = valves.MAX_TOOL_ROUNDS =>
            /\ Len(chatLog) = valves.MAX_TOOL_ROUNDS + 1
            /\ chatLog[Len(chatLog)].tools = <<>>
            /\ chatLog[Len(chatLog)].messages = messages
            /\ (response.kind = "json" =>
                    ret = [kind |-> "text",
                           text |-> CleanResponse(response.message.content)])
            /\ ~ENABLED ChatOrToolStep)

\* C1 witness: with tools on offer, every round requested tools, and the final
\* call, answered with tool calls again, ended the invocation with its text
C1_Witness ==
    /\ pc = "done"
    /\ valves.MAX_TOOL_ROUNDS = MaxToolRounds
    /\ MaxToolRounds > 0
    /\ Cardinality(OfferingCalls) = valves.MAX_TOOL_ROUNDS
    /\ Len(chatLog) = valves.MAX_TOOL_ROUNDS + 1
    /\ response.kind = "json"
    /\ response.message.tool_calls # <<>>
    /\ ret = [kind |-> "text", text |-> <<"Let me check.">>]

UnusableSearches == {r \in SearchResponses : r.kind = "fail" \/ r.items = <<>>}

\* C2: for a table or chart message, a search call that fails and one that gives
\* no items are handled alike: no exception leaves pipe, nothing is returned, and
\* pipe goes on to the model path, which calls _fetch_tools and then the chat
\* endpoint.
C2_SearchMissFallsBack ==
    /\ [](/\ ret.kind # "raised"
          /\ (pc = "direct" =>
                 /\ DetectFormat(user_msg) \in {"table", "chart"}
                 /\ \A r1, r2 \in UnusableSearches :
                       DirectFormat(user_msg, GithubApi(r1))
                           = DirectFormat(user_msg, GithubApi(r2))))
    /\ [][/\ (pc = "format" /\ (data.error \/ data.items = <<>>) =>
                 /\ pc' = "model"
                 /\ ret' = NoRet
                 /\ chatLog' = <<>> /\ fetchLog' = <<>> /\ toolLog' = <<>>)
          /\ (pc = "model" =>
                 /\ pc' \in {"round", "final"}
                 /\ Len(fetchLog') = (IF tools_cache = NoCache THEN 1 ELSE 0)
                 /\ chatLog' = <<>>)
          /\ (pc \in {"round", "final"} => Len(chatLog') = Len(chatLog) + 1)]_vars

\* C2 witness: a chart message whose search failed has gone through the
\* tool-descriptor fetch to the chat call of the model path
C2_Witness ==
    /\ DetectFormat(user_msg) = "chart"
    /\ Len(searchLog) = 1
    /\ Len(fetchLog) = 1
    /\ pc = "done"
    /\ ret.kind = "text"
    /\ Len(chatLog) >= 1

\* C3: the search endpoint is called at most once per invocation, and only for a
\* table or chart message; a search that returns an item makes pipe return the
\* formatted text without a call to the tool-descriptor endpoint, the chat
\* endpoint or the tool proxy.
C3_FastPathOnly ==
    /\ [](/\ Len(searchLog) <= 1
          /\ (DetectFormat(user_msg) = "default" => searchLog = <<>>)
          /\ (searchLog # <<>> => DetectFormat(user_msg) \in {"table", "chart"})
          /\ (ret.kind = "direct" =>
                 /\ pc = "done"
                 /\ Len(searchLog) = 1
                 /\ fetchLog = <<>> /\ chatLog = <<>> /\ toolLog = <<>>))
    /\ [][pc = "format" /\ data.items # <<>> =>
             /\ pc' = "done"
             /\ ret' = [kind |-> "direct", text |-> DirectFormat(user_msg, data).result]
             /\ Len(ret'.text) > 2
             /\ searchLog' = searchLog
             /\ fetchLog' = <<>> /\ chatLog' = <<>> /\ toolLog' = <<>>]_vars

\* C3 witness: a table message was answered from the search result alone
C3_Witness ==
    /\ ret.kind = "direct"
    /\ DetectFormat(user_msg) = "table"
    /\ Len(searchLog) = 1
    /\ Len(ret.text) = 2 + 2 + MaxItems

\* C4: a failed chat call, in a round or in the final call, ends the invocation
\* with an error text; no chat call and no tool call follows it.
C4_ChatFailureEnds ==
    /\ (response.kind = "fail" =>
            /\ pc = "done"
            /\ ret.kind = "error"
            /\ ret.text \in {<<"Error calling Ollama: ...">>, <<"Error: ...">>}
            /\ chatLog # <<>>)
    /\ (ret.kind = "error" => response.kind = "fail")
    /\ (pc = "done" => ~ENABLED ChatOrToolStep)

\* C4 witness: the chat call of the second round failed after a round of tools
C4_Witness ==
    /\ response.kind = "fail"
    /\ ret.text = <<"Error calling Ollama: ...">>
    /\ Len(chatLog) = 2
    /\ toolLog # <<>>

\* C4 witness for the final call is the same with the other text
C4_WitnessFinal ==
    /\ response.kind = "fail"
    /\ ret.text = <<"Error: ...">>
    /\ Len(chatLog) = valves.MAX_TOOL_ROUNDS + 1

\* the position of the assistant message whose tool calls were running when the
\* transcript had n messages
RequestAt(n) ==
    LET req == {a \in 1..n : messages[a].tool_calls # <<>>}
    IN  IF req = {} THEN 0 ELSE CHOOSE a \in req : \A b \in req : b <= a

\* C5: in a round that requests tools t1..tk the assistant message is appended
\* first; ti is executed when the assistant message and the results of
\* t1..t(i-1) are already in the transcript, and its result is appended as a
\* tool-role message; the transcript of the next chat call is the previous one
\* followed by the assistant message and the k results in the requested order.
C5_ToolOrder ==
    /\ \A t \in 1..Len(toolLog) :
          LET e == toolLog[t]
              a == RequestAt(e.seen)
              i == e.seen - a + 1
          IN  /\ a > 0
              /\ i \in 1..Len(messages[a].tool_calls)
              /\ e.name = messages[a].tool_calls[i].name
              /\ e.arguments = ArgumentsOf(messages[a].tool_calls[i])
              /\ \A p \in (a + 1)..e.seen : messages[p].role = "tool"
              /\ Len(messages) > e.seen
              /\ messages[e.seen + 1]
                    = [role |-> "tool", content |-> e.result, tool_calls |-> <<>>]
              /\ (t > 1 => toolLog[t - 1].seen < e.seen)
    /\ \A p \in 1..Len(messages) :
          messages[p].role = "tool" => \E t \in 1..Len(toolLog) : toolLog[t].seen = p - 1
    /\ \A c \in 1..Len(chatLog) :
          LET prev == IF c = 1 THEN InitialMessages(body) ELSE chatLog[c - 1].messages
              cur == chatLog[c].messages
              n == Len(prev)
          IN  IF c = 1 THEN cur = prev
              ELSE /\ Len(cur) > n
                   /\ SubSeq(cur, 1, n) = prev
                   /\ cur[n + 1].role = "assistant"
                   /\ cur[n + 1].tool_calls # <<>>
                   /\ Len(cur) = n + 1 + Len(cur[n + 1].tool_calls)
                   /\ \A i \in 1..Len(cur[n + 1].tool_calls) :
                         /\ cur[n + 1 + i].role = "tool"
                         /\ \E t \in 1..Len(toolLog) :
                               /\ toolLog[t].seen = n + i
                               /\ toolLog[t].name = cur[n + 1].tool_calls[i].name
                               /\ toolLog[t].result = cur[n + 1 + i].content
                   /\ SubSeq(messages, 1, Len(cur)) = cur

\* C5 witness: a round requested get_issue and then search_repositories; both ran
\* in that order, and the next chat call got the transcript with the two results
C5_Witness ==
    /\ Len(chatLog) = 2
    /\ Len(toolLog) = 2
    /\ toolLog[1].name = "get_issue"
    /\ toolLog[2].name = "search_repositories"
    /\ toolLog[2].seen = toolLog[1].seen + 1
    /\ Len(chatLog[2].messages) = Len(chatLog[1].messages) + 3
    /\ chatLog[2].messages[Len(chatLog[2].messages)].content = toolLog[2].result

\* C10 as stated: the tool-descriptor endpoint is fetched at most once on one
\* instance.
C10_FetchOnce == Len(fetchHistory) <= 1

\* C10: on one instance at most one fetch of the tool descriptors succeeds, and no
\* fetch follows it; every fetch before it failed and left the cache unset. Once
\* the cache is set, every model-path invocation uses its list, and no step
\* changes it or fetches again.
C10_FetchOnceAfterSuccess ==
    /\ [](/\ \A i \in 1..(Len(fetchHistory) - 1) : ~fetchHistory[i].ok
          /\ (tools_cache # NoCache <=>
                 fetchHistory # <<>> /\ fetchHistory[Len(fetchHistory)].ok)
          /\ (tools_cache # NoCache =>
                 tools_cache[1] = fetchHistory[Len(fetchHistory)].tools)
          /\ (tools_cache # NoCache /\ pc \in {"round", "tools", "final"} =>
                 tools = tools_cache[1])
          /\ (tools_cache = NoCache /\ pc \in {"round", "tools", "final"} =>
                 tools = <<>> /\ Len(fetchLog) = 1))
    /\ [][tools_cache # NoCache =>
             /\ tools_cache' = tools_cache
             /\ fetchHistory' = fetchHistory
             /\ (fetchLog' = fetchLog \/ fetchLog' = <<>>)]_vars

\* C10 witness: a later invocation reached its first round with the list of the
\* earlier, successful fetch and without a fetch of its own
C10_Witness ==
    /\ invocations >= 2
    /\ pc = "round"
    /\ fetchLog = <<>>
    /\ Len(fetchHistory) = 1
    /\ fetchHistory[1].ok
    /\ tools = fetchHistory[1].tools
    /\ tools # <<>>

\* C10 counterexample state of the statement as given: a fetch failed, and a
\* later invocation fetched again
C10_Refetched ==
    /\ Len(fetchHistory) = 2
    /\ ~fetchHistory[1].ok
    /\ fetchHistory[2].ok

(***************************************************************************)
(* Properties of _extract_search_params, checked under SpecExtract.        *)
(***************************************************************************)
TextOf(m) == JoinWith(LowerWords(m), " ")

HasPopularityLanguage(m) == AnyIn({"popular", "top", "trending"}, TextOf(m))

HasIssueOrPrKeyword(m) ==
    AnyIn({"issue", "bug", "issues", "pull request", "pr ", "prs", "pull requests"}, TextOf(m))

HasOwnerName(m) == \E i \in 1..Len(m) : IsRepoToken(m[i])

HasTerm(q, t) == \E i \in 1..Len(q) : q[i] = t

\* C7 as stated: for every text with popularity language the query string
\* contains stars:>100.
C7_PopularityQualifier ==
    called = "_extract_search_params" /\ HasPopularityLanguage(arg) =>
        In("stars:>100", JoinWith(out.query, " "))

\* C7: for a text with popularity language, the query is repo:<owner/name> with
\* no stars qualifier when the text holds an owner/name token and an issue or
\* pull-request keyword; otherwise it ends with the term stars:>100 when a
\* keyword remains after the noise words are removed, and is stars:>1000 when
\* none remains.
C7_PopularityWhereKeywords ==
    called = "_extract_search_params" /\ HasPopularityLanguage(arg) =>
        IF HasOwnerName(arg) /\ HasIssueOrPrKeyword(arg)
        THEN /\ out.query = <<"repo:" \o RepoMatch(arg)>>
             /\ ~In("stars:>", JoinWith(out.query, " "))
        ELSE IF KeywordsOf(LowerWords(arg)) # <<>>
        THEN /\ out.query[Len(out.query)] = "stars:>100"
             /\ Len(out.query) = Len(KeywordsOf(LowerWords(arg))) + 1
        ELSE out.query = <<"stars:>1000">>

\* C7 witness: "top" inside "laptop" counts as popularity language, and the
\* qualifier follows the topic and the language term
C7_Witness ==
    /\ called = "_extract_search_params"
    /\ arg = <<"laptop", "python", "react">>
    /\ out.query = <<"laptop", "react", "language:python", "stars:>100">>

\* C7 counterexample state: popularity language, and no stars qualifier at all
C7_NoQualifier ==
    /\ called = "_extract_search_params"
    /\ arg = <<"top", "issues", "Facebook/React">>
    /\ out.query = <<"repo:Facebook/React">>

\* C8: for a text with an owner/name token and an issue or pull-request keyword
\* the query is exactly repo:<owner/name>, for the first such token as written,
\* and the sort is created; for every other text the sort is stars.
C8_RepoQuery ==
    called = "_extract_search_params" =>
        IF HasOwnerName(arg) /\ HasIssueOrPrKeyword(arg)
        THEN /\ out.query = <<"repo:" \o RepoMatch(arg)>>
             /\ out.sort = "created"
             /\ out.search_type \in {"issues", "prs"}
        ELSE out.sort = "stars"

\* C8 witness: a text with two owner/name tokens, a language and popularity
\* language besides the keyword
C8_Witness ==
    /\ called = "_extract_search_params"
    /\ arg = <<"Facebook/React", "prs", "vercel/next.js">>
    /\ out = [search_type |-> "prs", query |-> <<"repo:Facebook/React">>,
              sort |-> "created"]

(***************************************************************************)
(* Properties of the table formatters, checked under SpecTable.            *)
(***************************************************************************)
TableCalls == {"_repos_table", "_issues_table", "_prs_table"}

\* C9: the table of n items has min(n, 15) rows after its two header lines; row i
\* is ranked i and is the row of the i-th item.
C9_TableRows ==
    called \in TableCalls =>
        LET k == Min(Len(arg), 15)
        IN  /\ Len(out) = 2 + k
            /\ StartsWith(out[1], "| # | ")
            /\ StartsWith(out[2], "|---|")
            /\ \A i \in 1..k :
                  /\ StartsWith(out[2 + i], "| " \o ToString(i) \o " | ")
                  /\ In("](" \o arg[i].html_url \o ") |", out[2 + i])
                  /\ out[2 + i] = (IF called = "_repos_table" THEN RepoRow(i, arg[i])
                                   ELSE IF called = "_issues_table"
                                   THEN IssueRow(i, arg[i])
                                   ELSE PrRow(i, arg[i]))

\* C9 witness: a list of more than 15 pull requests gives rows 1 to 15
C9_Witness ==
    /\ called = "_prs_table"
    /\ Len(arg) = MaxRows
    /\ MaxRows > 15
    /\ Len(out) = 17
    /\ StartsWith(out[17], "| 15 | ")

(***************************************************************************)
(* Properties of _clean_response, checked under SpecClean.                 *)
(***************************************************************************)
\* the lines the loop scans after the tokens are removed, the lines it gives
\* and which of them it inserted
ScanOf(text) ==
    LET lines == StripTokens(text)
        st == CleanScan(lines)
    IN  [lines |-> lines, result |-> st.result, inserted |-> st.inserted]

IsFenceLine(l) == StartsWith(Strip(l), "~~~")
IsStarter(l) == Strip(l) \in ChartStarters
IsBlank(l) == Strip(l) = ""

InsertedOpening(s, p) ==
    p \in 1..Len(s.result) /\ s.inserted[p] /\ s.result[p] = "~~~mermaid"
InsertedClosing(s, p) ==
    p \in 1..Len(s.result) /\ s.inserted[p] /\ s.result[p] = "~~~"

OpeningsBefore(s, p) == Cardinality({q \in 1..(p - 1) : InsertedOpening(s, q)})
ClosingsBefore(s, p) == Cardinality({q \in 1..(p - 1) : InsertedClosing(s, q)})

\* where the j-th scanned line stands in the result, and back
PosOf(s, j) ==
    CHOOSE p \in 1..Len(s.result) :
        ~s.inserted[p] /\ Cardinality({q \in 1..p : ~s.inserted[q]}) = j
LineAt(s, p) == Cardinality({q \in 1..p : ~s.inserted[q]})

\* the j-th scanned line lies inside a code fence of the text itself
InTextFence(s, j) == Cardinality({k \in 1..(j - 1) : IsFenceLine(s.lines[k])}) % 2 = 1

\* the line at p lies in a block that is open there
BlockOpenAt(s, p) == OpeningsBefore(s, p) > ClosingsBefore(s, p)

\* the j-th scanned line lies in a block that an earlier starter opened
InOpenBlock(s, j) ==
    LET p == PosOf(s, j)
    IN  OpeningsBefore(s, p) - (IF InsertedOpening(s, p - 1) THEN 1 ELSE 0)
            > ClosingsBefore(s, p)

\* a fence line of the text lies inside a block the loop is wrapping
FenceInsideBlock(s) ==
    \E j \in 1..Len(s.lines) : IsFenceLine(s.lines[j]) /\ BlockOpenAt(s, PosOf(s, j))

\* the lines are kept in order, and the returned text is the result stripped
KeepsLines(s, text) ==
    /\ Len(s.result) = Len(s.inserted)
    /\ LineAt(s, Len(s.result)) = Len(s.lines)
    /\ \A j \in 1..Len(s.lines) : s.result[PosOf(s, j)] = s.lines[j]
    /\ \A p \in 1..Len(s.result) :
          s.inserted[p] => InsertedOpening(s, p) \/ InsertedClosing(s, p)
    /\ text = StripText(s.result)
    /\ Cardinality({p \in 1..Len(text) : IsFenceLine(text[p])})
          = Cardinality({p \in 1..Len(s.result) : IsFenceLine(s.result[p])})

\* inserted openings and closings alternate and are equal in number; an opening
\* stands immediately before a starter line
FencesAlternate(s) ==
    /\ \A p \in 1..Len(s.result) :
          /\ InsertedOpening(s, p) =>
                /\ ~BlockOpenAt(s, p)
                /\ OpeningsBefore(s, p) = ClosingsBefore(s, p)
                /\ p < Len(s.result)
                /\ ~s.inserted[p + 1]
                /\ IsStarter(s.result[p + 1])
          /\ InsertedClosing(s, p) => OpeningsBefore(s, p) = ClosingsBefore(s, p) + 1
    /\ OpeningsBefore(s, Len(s.result) + 1) = ClosingsBefore(s, Len(s.result) + 1)

\* the j-th scanned line is followed by a blank line that is not followed by an
\* indented line
BeforeTerminator(s, j) ==
    /\ j + 1 <= Len(s.lines)
    /\ IsBlank(s.lines[j + 1])
    /\ (j + 2 > Len(s.lines) \/ ~StartsWith(s.lines[j + 2], "    "))

\* a closing stands after the last line before the first blank terminator of
\* its block, or at the end of the text when the block has none
ClosingsPlaced(s) ==
    /\ \A p \in 1..Len(s.result) :
          InsertedClosing(s, p) =>
              /\ p > 1
              /\ ~s.inserted[p - 1]
              /\ (BeforeTerminator(s, LineAt(s, p - 1)) \/ p = Len(s.result))
    /\ \A j \in 1..Len(s.lines) :
          BeforeTerminator(s, j) /\ BlockOpenAt(s, PosOf(s, j)) =>
              InsertedClosing(s, PosOf(s, j) + 1)

\* every starter line outside the fences of the text, and outside a block an
\* earlier starter opened, has an opening inserted immediately before it
StartersOutsideWrapped(s) ==
    \A j \in 1..Len(s.lines) :
        IsStarter(s.lines[j]) /\ ~InTextFence(s, j) /\ ~InOpenBlock(s, j) =>
            InsertedOpening(s, PosOf(s, j) - 1)

\* no starter line inside a fence of the text has an opening inserted before it
StartersInsideLeft(s) ==
    \A j \in 1..Len(s.lines) :
        IsStarter(s.lines[j]) /\ InTextFence(s, j) => ~InsertedOpening(s, PosOf(s, j) - 1)

\* C6 as stated: for every text each starter line outside every code fence is
\* wrapped by an inserted opening and one inserted closing, the inserted fences
\* alternate and are equal in number, and a starter line inside an existing
\* code fence gets no inserted fence.
C6_WrapsEveryStarter ==
    called = "_clean_response" =>
        LET s == ScanOf(arg)
        IN  /\ KeepsLines(s, out)
            /\ FencesAlternate(s)
            /\ ClosingsPlaced(s)
            /\ StartersOutsideWrapped(s)
            /\ StartersInsideLeft(s)

\* C6: for every text, on the lines left after the leaked tokens are removed, the
\* inserted openings and closings alternate and are equal in number, each opening
\* stands immediately before a starter line and each closing before the blank
\* terminator of its block or at the end of the text; when no fence line of the
\* text lies inside a wrapped block, every starter line outside the fences of the
\* text and outside a block already open has an opening inserted before it, and
\* no starter line inside a fence of the text has one.
C6_WrapsOutsideFences ==
    called = "_clean_response" =>
        LET s == ScanOf(arg)
        IN  /\ KeepsLines(s, out)
            /\ FencesAlternate(s)
            /\ ClosingsPlaced(s)
            /\ (~FenceInsideBlock(s) => StartersOutsideWrapped(s) /\ StartersInsideLeft(s))

\* C6 witness: a pie block with an indented line and a blank terminator, then a
\* second starter; both are wrapped
C6_Witness ==
    /\ called = "_clean_response"
    /\ arg = <<"pie showData", "    \"a\" : 1", "", "graph">>
    /\ ~FenceInsideBlock(ScanOf(arg))
    /\ out = <<"~~~mermaid", "pie showData", "    \"a\" : 1", "~~~", "",
               "~~~mermaid", "graph", "~~~">>

\* C6 counterexample state: the fence line inside the wrapped block opens a
\* fence of the text, and the starter inside that fence is wrapped all the same
C6_WrappedInsideFence ==
    /\ called = "_clean_response"
    /\ arg = <<"pie showData", "~~~", "", "graph">>
    /\ InTextFence(ScanOf(arg), 4)
    /\ out = <<"~~~mermaid", "pie showData", "~~~", "~~~", "", "~~~mermaid", "graph",
               "~~~">>

\* the argument payload of a requested call is a string that is not valid JSON
MalformedArguments(tc) == tc.arguments.type = "str" /\ ~JsonLoads(tc.arguments.value).ok

\* C11: a requested tool call whose arguments are a string that is not valid JSON
\* is executed with the empty argument set and its result is appended as a
\* tool-role message; the round goes on: the invocation has returned nothing,
\* the remaining calls of the round are executed next, in order, and after the
\* last of them the next round or the final call follows, as after a call
\* with well-formed arguments.
C11_MalformedArguments ==
    \A t \in 1..Len(toolLog) :
        LET e == toolLog[t]
            a == RequestAt(e.seen)
            i == e.seen - a + 1
            tcs == messages[a].tool_calls
            k == Len(tcs)
        IN  MalformedArguments(tcs[i]) =>
                /\ e.name = tcs[i].name
                /\ e.arguments = "{}"
                /\ messages[e.seen + 1]
                      = [role |-> "tool", content |-> e.result, tool_calls |-> <<>>]
                /\ e.result \in {ExecuteTool(r) : r \in ProxyResponses(e.name)}
                /\ ret.kind \notin {"raised", "direct"}
                /\ (Len(messages) = e.seen + 1 /\ Len(chatLog) = RoundsWithTools =>
                       /\ ret = NoRet
                       /\ tool_calls = SubSeq(tcs, i + 1, k)
                       /\ pc = (IF i < k THEN "tools"
                                ELSE IF round_num < valves.MAX_TOOL_ROUNDS THEN "round"
                                ELSE "final")
                       /\ round_num = RoundsWithTools - (IF i < k THEN 1 ELSE 0))
                /\ (pc # "tools" \/ Len(messages) > a + k =>
                       \A j \in 1..k :
                           \E u \in 1..Len(toolLog) :
                               /\ toolLog[u].seen = a + j - 1
                               /\ toolLog[u].name = tcs[j].name
                               /\ toolLog[u].arguments = ArgumentsOf(tcs[j]))
                /\ (ret.kind = "error" => response.kind = "fail")

\* C11 witness: get_issue came with a cut-off argument string and was executed
\* with {}; search_repositories ran after it, a second round requested the same
\* calls, and the invocation ended with the text of a later chat call
C11_Witness ==
    /\ pc = "done"
    /\ ret.kind = "text"
    /\ Len(chatLog) = 3
    /\ Len(toolLog) = 4
    /\ toolLog[1].name = "get_issue"
    /\ toolLog[1].arguments = "{}"
    /\ toolLog[1].result = <<"result of get_issue", "... (truncated)">>
    /\ toolLog[2].name = "search_repositories"
    /\ toolLog[2].arguments = "{q: react}"
    /\ toolLog[3].arguments = "{}"
    /\ MalformedArguments(messages[RequestAt(toolLog[1].seen)].tool_calls[1])

====
